---- MODULE Spec2Model ----
(***************************************************************************)
(* Model of src/src/pages/provider/policies/DatasetPolicyEdit.tsx:         *)
(* the identifier generator (generateUUID), the two policy compilers       *)
(* (generateIDSPolicy, generateODRLPolicy) and the state and handlers of   *)
(* the DatasetPolicyEdit component.                                        *)
(*                                                                         *)
(* Representation.                                                         *)
(*  - A JavaScript string whose characters matter (a uuid, the raw text of *)
(*    an input field) is a sequence of one-character strings; Join turns   *)
(*    it into a TLA+ string where it is interpolated into a document.      *)
(*  - A JSON value is a tagged record (JStr, JNum, JArr, JObj); an object  *)
(*    is the ordered sequence of its <<key, value>> entries, as            *)
(*    JSON.stringify walks the keys in insertion order.                    *)
(*  - The text JSON.stringify(v, null, 2) returns is the sequence of its   *)
(*    lines.                                                               *)
(*  - An optional field of PolicyConfig that is absent is a key missing    *)
(*    from the record's DOMAIN.                                            *)
(***************************************************************************)
EXTENDS Integers, Sequences, FiniteSets, TLC

VARIABLES
    datasets,         \* useState<Dataset[]>             (line 240)
    selectedDataset,  \* useState<Dataset | null>        (line 241)
    policyType,       \* useState<PolicyType>            (line 242)
    policyConfig,     \* useState<PolicyConfig>          (line 243)
    idsPolicy,        \* useState<string>, lines of text (line 251)
    odrlPolicy,       \* useState<string>, lines of text (line 252)
    now,              \* the wall clock new Date() reads, in ms
    draws,            \* the values Math.random() returns to one generateUUID call
    uuid,             \* the string that generateUUID call returned
    uuidCalls,        \* per catalog entry, the generateUUID() calls made for it
    pc                \* position of the run of a pure function: "input" | "done"

vars == <<datasets, selectedDataset, policyType, policyConfig, idsPolicy,
          odrlPolicy, now, draws, uuid, uuidCalls, pc>>

(***************************************************************************)
(* Bounds of the model.                                                    *)
(***************************************************************************)
\* Math.random() returns k / RandDenom for some k in 0 .. RandDenom - 1.
RandDenom == 32
\* The wall clock runs over 0 .. MaxNow milliseconds after the epoch.
MaxNow == 1
\* A consumers or connectors list given to a compiler has at most MaxSel entries.
MaxSel == 2
\* A maxUsageCount given to a compiler lies in -MaxCount .. MaxCount.
MaxCount == 12
\* The generateUUID() calls of a catalog entry are counted up to MaxCalls,
\* which stands for MaxCalls or more.
MaxCalls == 3

(***************************************************************************)
(* Generic helpers: sequences, strings, bit operations.                    *)
(***************************************************************************)
Range(s) == {s[i] : i \in DOMAIN s}

RECURSIVE JoinFrom(_, _)
JoinFrom(s, i) == IF i > Len(s) THEN "" ELSE s[i] \o JoinFrom(s, i + 1)

\* String concatenation of a sequence of strings.
Join(s) == JoinFrom(s, 1)

RECURSIVE BitAnd(_, _)
\* a & b on non-negative integers.
BitAnd(a, b) ==
    IF a = 0 \/ b = 0 THEN 0
    ELSE (IF a % 2 = 1 /\ b % 2 = 1 THEN 1 ELSE 0) + 2 * BitAnd(a \div 2, b \div 2)

RECURSIVE BitOr(_, _)
\* a | b on non-negative integers.
BitOr(a, b) ==
    IF a = 0 THEN b
    ELSE IF b = 0 THEN a
    ELSE (IF a % 2 = 1 \/ b % 2 = 1 THEN 1 ELSE 0) + 2 * BitOr(a \div 2, b \div 2)

HexDigits == <<"0", "1", "2", "3", "4", "5", "6", "7",
               "8", "9", "a", "b", "c", "d", "e", "f">>

\* v.toString(16) for v in 0 .. 15.
ToHex(v) == HexDigits[v + 1]

(***************************************************************************)
(* generateUUID (lines 69-75).                                             *)
(***************************************************************************)
\* The template string of line 70.
UUIDTemplate ==
    <<"x","x","x","x","x","x","x","x","-","x","x","x","x","-",
      "4","x","x","x","-","y","x","x","x","-",
      "x","x","x","x","x","x","x","x","x","x","x","x">>

\* The number of matches of /[xy]/g in the template: one Math.random() each.
NumDraws == Cardinality({i \in DOMAIN UUIDTemplate : UUIDTemplate[i] \in {"x", "y"}})

\* Math.random() * 16 | 0, for Math.random() = k / RandDenom.
RandomNibble(k) == (k * 16) \div RandDenom

\* UUIDReplacer with the variant nibble masked by 0x7 instead of 0x3.
UUIDReplacerBadVariant(c, k) ==
    LET r == RandomNibble(k)
        v == IF c = "x" THEN r ELSE BitOr(BitAnd(r, 7), 8)
    IN  ToHex(v)

\* The replacer callback of lines 70-74, on the matched character c and
\* the random value k / RandDenom.
UUIDReplacer(c, k) ==
    LET r == RandomNibble(k)
        v == IF c = "x" THEN r ELSE BitOr(BitAnd(r, 3), 8)
    IN  ToHex(v)

RECURSIVE ReplaceFrom(_, _, _)
\* String.prototype.replace(/[xy]/g, f) from position i of the template on,
\* n matches having been replaced so far; ks[n + 1] is the next random value.
ReplaceFrom(i, n, ks) ==
    IF i > Len(UUIDTemplate) THEN <<>>
    ELSE IF UUIDTemplate[i] \in {"x", "y"}
         THEN <<UUIDReplacer(UUIDTemplate[i], ks[n + 1])>> \o ReplaceFrom(i + 1, n + 1, ks)
         ELSE <<UUIDTemplate[i]>> \o ReplaceFrom(i + 1, n, ks)

\* generateUUID(), given the values ks its Math.random() calls return.
generateUUID(ks) == ReplaceFrom(1, 0, ks)

\* Random values of one call: all equal to base, but the one at position p,
\* which is k.
DrawsWith(base, p, k) == [i \in 1..NumDraws |-> IF i = p THEN k ELSE base]

\* The sequences of random values the model draws from: every position
\* takes every value, against the lowest and the highest background.
DrawSeqs ==
    {DrawsWith(base, p, k) : base \in {0, RandDenom - 1},
                             p \in 1..NumDraws, k \in 0..(RandDenom - 1)}

(***************************************************************************)
(* JSON values and JSON.stringify(value, null, 2) (lines 167, 236).        *)
(***************************************************************************)
JStr(s) == [t |-> "str", s |-> s]
JNum(n) == [t |-> "num", n |-> n]
JArr(a) == [t |-> "arr", a |-> a]
JObj(o) == [t |-> "obj", o |-> o]

\* The keys of an object, in insertion order.
Keys(obj) == [i \in DOMAIN obj.o |-> obj.o[i][1]]

HasKey(obj, key) == \E i \in DOMAIN obj.o : obj.o[i][1] = key

\* obj[key], for a key the object has.
Get(obj, key) == obj.o[CHOOSE i \in DOMAIN obj.o : obj.o[i][1] = key][2]

\* obj[key] = val: an existing key keeps its place, a new key goes last.
Put(obj, key, val) ==
    IF HasKey(obj, key)
    THEN JObj([i \in DOMAIN obj.o |->
                 IF obj.o[i][1] = key THEN <<key, val>> ELSE obj.o[i]])
    ELSE JObj(Append(obj.o, <<key, val>>))

RECURSIVE NatToString(_)
NatToString(n) ==
    IF n < 10 THEN HexDigits[n + 1]
    ELSE NatToString(n \div 10) \o HexDigits[(n % 10) + 1]

\* Number.prototype.toString() and JSON's number text, for an integer.
NumberToString(n) == IF n < 0 THEN "-" \o NatToString(-n) ELSE NatToString(n)

\* A JSON string literal; no string of the model holds a character that
\* JSON.stringify escapes.
Quote(s) == "\"" \o s \o "\""

\* The gap JSON.stringify(value, null, 2) indents each level by.
Gap == "  "

RECURSIVE JSONLines(_, _), MemberLines(_, _, _, _)
\* The lines of the members i, i + 1, ... of an array or object, each
\* indented by indent, every member but the last followed by a comma.
MemberLines(items, i, indent, isObj) ==
    IF i > Len(items) THEN <<>>
    ELSE LET val == IF isObj THEN items[i][2] ELSE items[i]
             key == IF isObj THEN Quote(items[i][1]) \o ": " ELSE ""
             ls == JSONLines(val, indent)
             comma == IF i < Len(items) THEN "," ELSE ""
             n == Len(ls)
         IN  [j \in 1..n |->
                 (IF j = 1 THEN indent \o key ELSE "") \o ls[j]
                     \o (IF j = n THEN comma ELSE "")]
                 \o MemberLines(items, i + 1, indent, isObj)

\* The lines of the text of v starting on a line indented by indent; the
\* first line is returned without its indentation.
JSONLines(v, indent) ==
    CASE v.t = "str" -> <<Quote(v.s)>>
      [] v.t = "num" -> <<NumberToString(v.n)>>
      [] v.t = "arr" ->
            IF Len(v.a) = 0 THEN <<"[]">>
            ELSE <<"[">> \o MemberLines(v.a, 1, indent \o Gap, FALSE) \o <<indent \o "]">>
      [] v.t = "obj" ->
            IF Len(v.o) = 0 THEN <<"{}">>
            ELSE <<"{">> \o MemberLines(v.o, 1, indent \o Gap, TRUE) \o <<indent \o "}">>

JSONStringify(v) == JSONLines(v, "")

(***************************************************************************)
(* PolicyConfig (lines 35-42) and the truthiness tests of the compilers.   *)
(***************************************************************************)
PolicyTypes == {"restrict_consumer", "restrict_connector", "time_limit", "usage_count"}

Defined(config, field) == field \in DOMAIN config

\* config.consumers && config.consumers.length > 0   (lines 114, 199)
HasConsumers(config) ==
    Defined(config, "consumers") /\ Len(config.consumers) > 0

\* config.connectors && config.connectors.length > 0 (lines 119, 204)
HasConnectors(config) ==
    Defined(config, "connectors") /\ Len(config.connectors) > 0

\* HasTimeWindow with || in place of &&.
HasTimeWindowEither(config) ==
    \/ Defined(config, "startTime") /\ config.startTime # ""
    \/ Defined(config, "endTime") /\ config.endTime # ""

\* config.startTime && config.endTime                (lines 132, 213)
HasTimeWindow(config) ==
    /\ Defined(config, "startTime") /\ config.startTime # ""
    /\ Defined(config, "endTime") /\ config.endTime # ""

\* config.maxUsageCount                              (lines 153, 226)
HasUsageCount(config) ==
    Defined(config, "maxUsageCount") /\ config.maxUsageCount # 0

(***************************************************************************)
(* generateIDSPolicy (lines 88-168).                                       *)
(***************************************************************************)
IDSConstraint(left, op, value, type) ==
    JObj(<< <<"@type", JStr("ids:Constraint")>>,
            <<"ids:leftOperand", JObj(<< <<"@id", JStr(left)>> >>)>>,
            <<"ids:operator", JObj(<< <<"@id", JStr(op)>> >>)>>,
            <<"ids:rightOperand",
              JArr(<< JObj(<< <<"@value", JStr(value)>>, <<"@type", JStr(type)>> >>) >>)>> >>)

\* IDSBasePolicy with dataset.id in place of dataset.uuid in @id.
IDSBasePolicyById(dataset) ==
    JObj(<< <<"@context", JObj(<< <<"ids", JStr("https://w3id.org/idsa/core/")>>,
                                  <<"idsc", JStr("https://w3id.org/idsa/code/")>> >>)>>,
            <<"@type", JStr("ids:ContractAgreement")>>,
            <<"@id", JStr("https://w3id.org/idsa/autogen/contract/"
                          \o NumberToString(dataset.id))>>,
            <<"profile", JStr("http://example.com/ids-profile")>>,
            <<"ids:provider", JStr("http://example.com/party/data-provider")>>,
            <<"ids:consumer", JStr("http://example.com/party/data-consumer")>>,
            <<"ids:permission",
              JArr(<< JObj(<< <<"ids:target",
                                JObj(<< <<"@id", JStr("http://example.com/ids/target/"
                                                      \o Join(dataset.uuid))>> >>)>>,
                              <<"ids:action",
                                JArr(<< JObj(<< <<"@id", JStr("idsc:USE")>> >>) >>)>> >>) >>)>> >>)

\* basePolicy of lines 89-107.
IDSBasePolicy(dataset) ==
    JObj(<< <<"@context", JObj(<< <<"ids", JStr("https://w3id.org/idsa/core/")>>,
                                  <<"idsc", JStr("https://w3id.org/idsa/code/")>> >>)>>,
            <<"@type", JStr("ids:ContractAgreement")>>,
            <<"@id", JStr("https://w3id.org/idsa/autogen/contract/" \o Join(dataset.uuid))>>,
            <<"profile", JStr("http://example.com/ids-profile")>>,
            <<"ids:provider", JStr("http://example.com/party/data-provider")>>,
            <<"ids:consumer", JStr("http://example.com/party/data-consumer")>>,
            <<"ids:permission",
              JArr(<< JObj(<< <<"ids:target",
                                JObj(<< <<"@id", JStr("http://example.com/ids/target/"
                                                      \o Join(dataset.uuid))>> >>)>>,
                              <<"ids:action",
                                JArr(<< JObj(<< <<"@id", JStr("idsc:USE")>> >>) >>)>> >>) >>)>> >>)

\* permission["ids:constraint"] = constraints, permission being
\* basePolicy["ids:permission"][0] (line 110).
IDSWithConstraint(base, constraints) ==
    LET permission == Get(base, "ids:permission").a[1]
    IN  Put(base, "ids:permission",
            JArr(<<Put(permission, "ids:constraint", JArr(constraints))>>))

\* ActiveType deciding by the presence of consumers before the tag.
ActiveTypeByContent(config) ==
    IF HasConsumers(config) THEN "restrict_consumer" ELSE config.type

\* The tag the switch statements branch on (lines 112, 197).
ActiveType(config) == config.type

\* The constraint list of lines 120-128.
IDSConnectorConstraints(config) ==
    <<IDSConstraint("idsc:CONNECTOR", "idsc:EQUALS", config.connectors[1], "xsd:string")>>

\* IDSTimeConstraints with the two timestamps exchanged.
IDSTimeConstraintsSwapped(config) ==
    <<IDSConstraint("idsc:POLICY_EVALUATION_TIME", "idsc:AFTER",
                    config.endTime, "xsd:dateTimeStamp"),
      IDSConstraint("idsc:POLICY_EVALUATION_TIME", "idsc:BEFORE",
                    config.startTime, "xsd:dateTimeStamp")>>

\* The constraint list of lines 133-149.
IDSTimeConstraints(config) ==
    <<IDSConstraint("idsc:POLICY_EVALUATION_TIME", "idsc:AFTER",
                    config.startTime, "xsd:dateTimeStamp"),
      IDSConstraint("idsc:POLICY_EVALUATION_TIME", "idsc:BEFORE",
                    config.endTime, "xsd:dateTimeStamp")>>

\* The constraint list of lines 154-162.
IDSCountConstraints(config) ==
    <<IDSConstraint("idsc:COUNT", "idsc:LTEQ",
                    NumberToString(config.maxUsageCount), "xsd:double")>>

\* The object generateIDSPolicy serializes: basePolicy after the switch of
\* lines 112-165.
IDSPolicyObject(dataset, config) ==
    LET base == IDSBasePolicy(dataset)
        type == ActiveType(config)
    IN  CASE type = "restrict_consumer" ->
               IF HasConsumers(config)
               THEN Put(base, "ids:consumer", JStr(config.consumers[1]))
               ELSE base
          [] type = "restrict_connector" ->
               IF HasConnectors(config)
               THEN IDSWithConstraint(base, IDSConnectorConstraints(config))
               ELSE base
          [] type = "time_limit" ->
               IF HasTimeWindow(config)
               THEN IDSWithConstraint(base, IDSTimeConstraints(config))
               ELSE base
          [] type = "usage_count" ->
               IF HasUsageCount(config)
               THEN IDSWithConstraint(base, IDSCountConstraints(config))
               ELSE base
          [] OTHER -> base

generateIDSPolicy(dataset, config) == JSONStringify(IDSPolicyObject(dataset, config))

(***************************************************************************)
(* generateODRLPolicy (lines 171-237).                                     *)
(***************************************************************************)
\* Date.prototype.toISOString() of the instant ms milliseconds after the
\* epoch, for ms < 1000.
ToISOString(ms) ==
    "1970-01-01T00:00:00."
        \o (IF ms < 100 THEN "0" ELSE "") \o (IF ms < 10 THEN "0" ELSE "")
        \o NatToString(ms) \o "Z"

ODRLConstraint(left, op, right) ==
    JObj(<< <<"leftOperand", JStr(left)>>,
            <<"operator", JStr(op)>>,
            <<"rightOperand", right>> >>)

ODRLDateTime(value) ==
    JObj(<< <<"@value", JStr(value)>>, <<"@type", JStr("xsd:dateTime")>> >>)

\* basePolicy of lines 172-193; clock is the instant new Date() reads.
ODRLBasePolicy(dataset, clock) ==
    JObj(<< <<"@context",
              JArr(<< JStr("http://www.w3.org/ns/odrl.jsonld"),
                      JObj(<< <<"dc", JStr("http://purl.org/dc/terms/")>>,
                              <<"ids", JStr("https://w3id.org/idsa/core/")>>,
                              <<"idsc", JStr("https://w3id.org/idsa/code/")>> >>) >>)>>,
            <<"@type", JStr("Agreement")>>,
            <<"uid", JStr("http://example.com/policy/" \o Join(dataset.uuid))>>,
            <<"profile", JStr("http://www.w3.org/ns/odrl/2/core")>>,
            <<"dc:creator", JStr("Data Provider")>>,
            <<"dc:description", JStr("Policy for dataset: " \o dataset.name)>>,
            <<"dc:issued", JStr(ToISOString(clock))>>,
            <<"permission",
              JArr(<< JObj(<< <<"target", JStr("http://example.com/ids/data/"
                                               \o Join(dataset.uuid))>>,
                              <<"assigner", JStr("http://example.com/ids/party/data-provider")>>,
                              <<"assignee", JStr("http://example.com/ids/party/data-consumer")>>,
                              <<"action", JStr("use")>> >>) >>)>> >>)

\* permission[key] = val, permission being basePolicy.permission[0] (line 195).
ODRLWithPermission(base, key, val) ==
    LET permission == Get(base, "permission").a[1]
    IN  Put(base, "permission", JArr(<<Put(permission, key, val)>>))

\* ODRLConnectorConstraints encoding the last connector instead of the first.
ODRLConnectorConstraintsLast(config) ==
    <<ODRLConstraint("connector", "eq", JStr(config.connectors[Len(config.connectors)]))>>

\* The constraint list of lines 205-209.
ODRLConnectorConstraints(config) ==
    <<ODRLConstraint("connector", "eq", JStr(config.connectors[1]))>>

\* The constraint list of lines 214-222.
ODRLTimeConstraints(config) ==
    <<ODRLConstraint("dateTime", "gteq", ODRLDateTime(config.startTime)),
      ODRLConstraint("dateTime", "lteq", ODRLDateTime(config.endTime))>>

\* ODRLCountConstraints with the count as a string.
ODRLCountConstraintsStringified(config) ==
    <<ODRLConstraint("count", "lteq", JStr(NumberToString(config.maxUsageCount)))>>

\* The constraint list of lines 227-231.
ODRLCountConstraints(config) ==
    <<ODRLConstraint("count", "lteq", JNum(config.maxUsageCount))>>

\* The object generateODRLPolicy serializes: basePolicy after the switch
\* of lines 197-234.
ODRLPolicyObject(dataset, config, clock) ==
    LET base == ODRLBasePolicy(dataset, clock)
        type == ActiveType(config)
    IN  CASE type = "restrict_consumer" ->
               IF HasConsumers(config)
               THEN ODRLWithPermission(base, "assignee", JStr(config.consumers[1]))
               ELSE base
          [] type = "restrict_connector" ->
               IF HasConnectors(config)
               THEN ODRLWithPermission(base, "constraint",
                                       JArr(ODRLConnectorConstraints(config)))
               ELSE base
          [] type = "time_limit" ->
               IF HasTimeWindow(config)
               THEN ODRLWithPermission(base, "constraint",
                                       JArr(ODRLTimeConstraints(config)))
               ELSE base
          [] type = "usage_count" ->
               IF HasUsageCount(config)
               THEN ODRLWithPermission(base, "constraint",
                                       JArr(ODRLCountConstraints(config)))
               ELSE base
          [] OTHER -> base

generateODRLPolicy(dataset, config, clock) ==
    JSONStringify(ODRLPolicyObject(dataset, config, clock))

(***************************************************************************)
(* The catalog and the option lists (lines 21, 45-58, 78-85).              *)
(***************************************************************************)
\* mockResources of contexts/ResourceContext (line 21): the catalog the
\* component ingests.
mockResources ==
    << [id |-> 1, name |-> "Sales Data", description |-> "Quarterly sales"],
       [id |-> 2, name |-> "Sensor Data", description |-> "Plant sensors"] >>

\* The ids of mockConsumers (lines 45-50) and mockConnectors (lines 53-58).
ConsumerIds == <<"consumer-001", "consumer-002", "consumer-003", "consumer-004">>
ConnectorIds == <<"connector-001", "connector-002", "connector-003", "connector-004">>

\* convertToDatasets(), kss[i] being the random values of the i-th
\* generateUUID() call.
convertToDatasets(kss) ==
    [i \in DOMAIN mockResources |->
        [id |-> mockResources[i].id,
         name |-> mockResources[i].name,
         description |-> mockResources[i].description,
         uuid |-> generateUUID(kss[i])]]

\* Random values of the generateUUID() calls of one convertToDatasets():
\* call i draws zeros, but k at its i-th draw.  With k = 0 the uuids of the
\* catalog collide.
CatalogDraws ==
    { [i \in DOMAIN mockResources |-> DrawsWith(0, i, k)] : k \in {0, RandDenom - 1} }

\* selectedDataset = null.
Null == [null |-> TRUE]

(***************************************************************************)
(* The component DatasetPolicyEdit (lines 239-323).                        *)
(***************************************************************************)
\* The initial policyConfig of lines 243-250.
InitialPolicyConfig ==
    [type |-> "restrict_consumer", consumers |-> <<>>, connectors |-> <<>>,
     startTime |-> "", endTime |-> "", maxUsageCount |-> 1]

\* { ...config, [field]: value }
Spread(config, field, value) ==
    [f \in DOMAIN config \cup {field} |-> IF f = field THEN value ELSE config[f]]

\* The effect of lines 255-262, run after a render in which selectedDataset
\* or policyConfig changed identity; ds and config are the new values.
PolicyEffect(ds, config) ==
    IF ds # Null
    THEN /\ idsPolicy' = generateIDSPolicy(ds, config)
         /\ odrlPolicy' = generateODRLPolicy(ds, config, now)
    ELSE UNCHANGED <<idsPolicy, odrlPolicy>>

\* useState(initial) in a render after the first (line 240): the state kept
\* is returned and the argument, though evaluated, is discarded.
UseState(current, initial) == current

\* The renders an event causes: one for the state the handler set, and one
\* more when the effect then set a different idsPolicy or odrlPolicy.
RendersOfEvent ==
    1 + (IF idsPolicy' # idsPolicy \/ odrlPolicy' # odrlPolicy THEN 1 ELSE 0)

\* n renders of the component.  Each runs the function body, whose line 240
\* evaluates convertToDatasets() as the argument of useState: one
\* generateUUID() call per catalog entry, on fresh random values.
Render(n) ==
    /\ uuidCalls' = [i \in DOMAIN uuidCalls |->
                        IF uuidCalls[i] + n < MaxCalls THEN uuidCalls[i] + n ELSE MaxCalls]
    /\ \E kss \in CatalogDraws :
            datasets' = UseState(datasets, convertToDatasets(kss))

\* handleSavePolicy (lines 308-323) only logs and alerts: it changes no state
\* and has no action here.

\* onChange of the dataset Autocomplete (line 466): newValue is a dataset of
\* the catalog, or null when the selection is cleared.  Setting the state to
\* the value it has causes no render and no effect.
SelectDataset(newValue) ==
    /\ pc = "mounted"
    /\ newValue # selectedDataset
    /\ selectedDataset' = newValue
    /\ PolicyEffect(newValue, policyConfig)
    /\ Render(RendersOfEvent)
    /\ UNCHANGED <<policyType, policyConfig, now, draws, uuid, pc>>

\* The policy form is rendered only while a dataset is selected (line 501).
FormShown == pc = "mounted" /\ selectedDataset # Null

\* handlePolicyTypeChange resetting the parameters to their initial values.
handlePolicyTypeChangeResets(newType) ==
    /\ FormShown
    /\ policyType' = newType
    /\ policyConfig' = [InitialPolicyConfig EXCEPT !.type = newType]
    /\ PolicyEffect(selectedDataset, policyConfig')
    /\ Render(RendersOfEvent)
    /\ UNCHANGED <<selectedDataset, now, draws, uuid, pc>>

\* handlePolicyTypeChange (lines 265-272).
handlePolicyTypeChange(newType) ==
    /\ FormShown
    /\ policyType' = newType
    /\ policyConfig' = Spread(policyConfig, "type", newType)
    /\ PolicyEffect(selectedDataset, policyConfig')
    /\ Render(RendersOfEvent)
    /\ UNCHANGED <<selectedDataset, now, draws, uuid, pc>>

\* handleConsumersChange (lines 275-280); the Autocomplete is rendered for
\* the restrict_consumer type (lines 327-328).
handleConsumersChange(newValue) ==
    /\ FormShown
    /\ policyType = "restrict_consumer"
    /\ policyConfig' = Spread(policyConfig, "consumers", newValue)
    /\ PolicyEffect(selectedDataset, policyConfig')
    /\ Render(RendersOfEvent)
    /\ UNCHANGED <<selectedDataset, policyType, now, draws, uuid, pc>>

\* handleConnectorsChange (lines 283-288), rendered for restrict_connector.
handleConnectorsChange(newValue) ==
    /\ FormShown
    /\ policyType = "restrict_connector"
    /\ policyConfig' = Spread(policyConfig, "connectors", newValue)
    /\ PolicyEffect(selectedDataset, policyConfig')
    /\ Render(RendersOfEvent)
    /\ UNCHANGED <<selectedDataset, policyType, now, draws, uuid, pc>>

\* handleTimeChange(field) (lines 291-296), rendered for time_limit.
handleTimeChange(field, value) ==
    /\ FormShown
    /\ policyType = "time_limit"
    /\ policyConfig' = Spread(policyConfig, field, value)
    /\ PolicyEffect(selectedDataset, policyConfig')
    /\ Render(RendersOfEvent)
    /\ UNCHANGED <<selectedDataset, policyType, now, draws, uuid, pc>>

IsDigit(c) == c \in {"0", "1", "2", "3", "4", "5", "6", "7", "8", "9"}

DigitValue(c) == CHOOSE d \in 0..9 : HexDigits[d + 1] = c

RECURSIVE SkipSpaces(_)
SkipSpaces(text) ==
    IF Len(text) > 0 /\ Head(text) = " " THEN SkipSpaces(Tail(text)) ELSE text

RECURSIVE ParseDigits(_, _)
\* The value of the longest prefix of digits of text, acc being the value
\* of the digits read so far.
ParseDigits(text, acc) ==
    IF Len(text) > 0 /\ IsDigit(Head(text))
    THEN ParseDigits(Tail(text), 10 * acc + DigitValue(Head(text)))
    ELSE acc

\* parseInt(text): leading white space is skipped, then an optional sign and
\* the longest prefix of decimal digits are read; NaN when there is no
\* digit.  (No text of the model starts with 0x.)
ParseInt(text) ==
    LET t == SkipSpaces(text)
        signed == Len(t) > 0 /\ Head(t) \in {"-", "+"}
        body == IF signed THEN Tail(t) ELSE t
    IN  IF Len(body) = 0 \/ ~IsDigit(Head(body))
        THEN [nan |-> TRUE, n |-> 0]
        ELSE [nan |-> FALSE,
              n |-> IF signed /\ Head(t) = "-" THEN -ParseDigits(body, 0)
                    ELSE ParseDigits(body, 0)]

\* parseInt(event.target.value) || 1   (line 300)
UsageCountOf(text) ==
    LET r == ParseInt(text)
    IN  IF r.nan \/ r.n = 0 THEN 1 ELSE r.n

\* handleUsageCountChange (lines 299-305), rendered for usage_count.
handleUsageCountChange(text) ==
    /\ FormShown
    /\ policyType = "usage_count"
    /\ policyConfig' = Spread(policyConfig, "maxUsageCount", UsageCountOf(text))
    /\ PolicyEffect(selectedDataset, policyConfig')
    /\ Render(RendersOfEvent)
    /\ UNCHANGED <<selectedDataset, policyType, now, draws, uuid, pc>>

\* Time passes.
Tick ==
    /\ pc = "mounted"
    /\ now < MaxNow
    /\ now' = now + 1
    /\ UNCHANGED <<datasets, selectedDataset, policyType, policyConfig,
                   idsPolicy, odrlPolicy, draws, uuid, uuidCalls, pc>>

(***************************************************************************)
(* The inputs the handlers are driven with.                                *)
(***************************************************************************)
\* Values of a datetime-local field; LaterTime is after EarlierTime.
EarlierTime == "2024-01-01T00:00"
LaterTime == "2024-06-01T00:00"
TimeValues == {"", EarlierTime, LaterTime}
FormTimes == {"", EarlierTime}

\* Raw texts of the usage-count field.
RawCounts ==
    { <<>>, <<"a", "b", "c">>, <<"0">>, <<"-", "3">>, <<"5">>, <<"1", ".", "5">> }

\* Selections of a multi-select Autocomplete over the options ids.
Selections(ids) == { <<>>, <<ids[2], ids[1]>> }

\* The state after the first render: convertToDatasets() has run once and
\* useState keeps its result.
Init ==
    /\ pc = "mounted"
    /\ \E kss \in CatalogDraws : datasets = convertToDatasets(kss)
    /\ selectedDataset = Null
    /\ policyType = "restrict_consumer"
    /\ policyConfig = InitialPolicyConfig
    /\ idsPolicy = <<>>
    /\ odrlPolicy = <<>>
    /\ now = 0
    /\ draws = <<>>
    /\ uuid = <<>>
    /\ uuidCalls = [i \in DOMAIN mockResources |-> 1]

Next ==
    \/ \E d \in Range(datasets) \cup {Null} : SelectDataset(d)
    \/ \E t \in PolicyTypes : handlePolicyTypeChange(t)
    \/ \E v \in Selections(ConsumerIds) : handleConsumersChange(v)
    \/ \E v \in Selections(ConnectorIds) : handleConnectorsChange(v)
    \/ \E f \in {"startTime", "endTime"}, v \in FormTimes : handleTimeChange(f, v)
    \/ \E text \in RawCounts : handleUsageCountChange(text)
    \/ Tick

Spec == Init /\ [][Next]_vars

(***************************************************************************)
(* The compilers as pure functions: one run compiles an arbitrary          *)
(* (Dataset, PolicyConfig) pair, then compiles the same pair again at any  *)
(* later time.                                                             *)
(***************************************************************************)
\* The parameter fields of each policy type.
OwnFields(type) ==
    CASE type = "restrict_consumer" -> {"consumers"}
      [] type = "restrict_connector" -> {"connectors"}
      [] type = "time_limit" -> {"startTime", "endTime"}
      [] type = "usage_count" -> {"maxUsageCount"}

ParamFields == {"consumers", "connectors", "startTime", "endTime", "maxUsageCount"}

\* All lists over ids of at most MaxSel entries, repeats included.
Lists(ids) == UNION { [1..k -> Range(ids)] : k \in 0..MaxSel }

\* The values the own fields of a type range over.
OwnValues(type) ==
    CASE type = "restrict_consumer" -> [consumers : Lists(ConsumerIds)]
      [] type = "restrict_connector" -> [connectors : Lists(ConnectorIds)]
      [] type = "time_limit" -> [startTime : TimeValues, endTime : TimeValues]
      [] type = "usage_count" -> [maxUsageCount : (-MaxCount)..MaxCount]

\* The values the fields of the other types take along with them.
OtherValues ==
    { [consumers |-> <<>>, connectors |-> <<>>, startTime |-> "", endTime |-> "",
       maxUsageCount |-> 1],
      [consumers |-> <<ConsumerIds[3]>>, connectors |-> <<ConnectorIds[4], ConnectorIds[1]>>,
       startTime |-> LaterTime, endTime |-> EarlierTime, maxUsageCount |-> 7],
      [consumers |-> <<ConsumerIds[2], ConsumerIds[3]>>, connectors |-> <<ConnectorIds[2]>>,
       startTime |-> EarlierTime, endTime |-> LaterTime, maxUsageCount |-> 0] }

Restrict(f, D) == [x \in D |-> f[x]]

\* The PolicyConfig values of type: the own fields present with any of
\* their values, or absent; the other fields present.
ConfigsOf(type) ==
    LET others == { Restrict(o, ParamFields \ OwnFields(type)) : o \in OtherValues }
    IN  { [type |-> type] @@ o @@ own : o \in others, own \in OwnValues(type) }
          \cup { [type |-> type] @@ o : o \in others }

ConfigInputs == UNION { ConfigsOf(type) : type \in PolicyTypes }

DatasetInputs ==
    UNION { Range(convertToDatasets(kss)) : kss \in CatalogDraws }

InitCompile ==
    /\ pc = "input"
    /\ selectedDataset \in DatasetInputs
    /\ policyConfig \in ConfigInputs
    /\ policyType = policyConfig.type
    /\ datasets = <<selectedDataset>>
    /\ idsPolicy = <<>>
    /\ odrlPolicy = <<>>
    /\ now = 0
    /\ draws = <<>>
    /\ uuid = <<>>
    /\ uuidCalls = <<>>

\* generateIDSPolicy(dataset, config) and generateODRLPolicy(dataset, config).
Compile ==
    /\ pc = "input"
    /\ pc' = "done"
    /\ idsPolicy' = generateIDSPolicy(selectedDataset, policyConfig)
    /\ odrlPolicy' = generateODRLPolicy(selectedDataset, policyConfig, now)
    /\ UNCHANGED <<datasets, selectedDataset, policyType, policyConfig, now, draws, uuid,
                   uuidCalls>>

\* The same pair compiled again.
Recompile ==
    /\ pc = "done"
    /\ idsPolicy' = generateIDSPolicy(selectedDataset, policyConfig)
    /\ odrlPolicy' = generateODRLPolicy(selectedDataset, policyConfig, now)
    /\ UNCHANGED <<datasets, selectedDataset, policyType, policyConfig, now, draws, uuid,
                   uuidCalls, pc>>

CompileTick ==
    /\ pc = "done"
    /\ now < MaxNow
    /\ now' = now + 1
    /\ UNCHANGED <<datasets, selectedDataset, policyType, policyConfig,
                   idsPolicy, odrlPolicy, draws, uuid, uuidCalls, pc>>

NextCompile == Compile \/ Recompile \/ CompileTick

SpecCompile == InitCompile /\ [][NextCompile]_vars

(***************************************************************************)
(* generateUUID as a pure function of the random values it is given.       *)
(***************************************************************************)
InitUUID ==
    /\ pc = "draw"
    /\ draws \in DrawSeqs
    /\ uuid = <<>>
    /\ datasets = <<>>
    /\ selectedDataset = Null
    /\ policyType = "restrict_consumer"
    /\ policyConfig = InitialPolicyConfig
    /\ idsPolicy = <<>>
    /\ odrlPolicy = <<>>
    /\ now = 0
    /\ uuidCalls = <<>>

GenerateUUID ==
    /\ pc = "draw"
    /\ pc' = "generated"
    /\ uuid' = generateUUID(draws)
    /\ UNCHANGED <<datasets, selectedDataset, policyType, policyConfig,
                   idsPolicy, odrlPolicy, now, draws, uuidCalls>>

NextUUID == GenerateUUID

SpecUUID == InitUUID /\ [][NextUUID]_vars

(***************************************************************************)
(* Properties.                                                             *)
(***************************************************************************)
\* The documents of the pair held in the state, as objects.
IDSDoc == IDSPolicyObject(selectedDataset, policyConfig)
ODRLDoc == ODRLPolicyObject(selectedDataset, policyConfig, 0)
IDSPermission == Get(IDSDoc, "ids:permission").a[1]
ODRLPermission == Get(ODRLDoc, "permission").a[1]

Compiled == pc = "done"

HasLine(text, line) == \E i \in DOMAIN text : text[i] = line

\* Two ODRL texts are equal apart from the dc:issued field.
IsIssuedLine(line) ==
    \E t \in 0..MaxNow : line = "  \"dc:issued\": " \o Quote(ToISOString(t)) \o ","

EqualApartFromIssued(a, b) ==
    /\ Len(a) = Len(b)
    /\ \A i \in DOMAIN a : a[i] # b[i] => IsIssuedLine(a[i]) /\ IsIssuedLine(b[i])

\* The texts in the state are the texts of the documents of the pair.
TextsOfDocs ==
    /\ idsPolicy = JSONStringify(IDSDoc)
    /\ EqualApartFromIssued(odrlPolicy, JSONStringify(ODRLDoc))

RECURSIVE Strings(_)
\* Every string of a JSON value: keys and string values.
Strings(v) ==
    CASE v.t = "str" -> {v.s}
      [] v.t = "num" -> {}
      [] v.t = "arr" -> UNION { Strings(v.a[i]) : i \in DOMAIN v.a }
      [] v.t = "obj" -> UNION { {v.o[i][1]} \cup Strings(v.o[i][2]) : i \in DOMAIN v.o }

DocStrings == Strings(IDSDoc) \cup Strings(ODRLDoc)

IDSConsumerPlaceholder == "http://example.com/party/data-consumer"
ODRLAssigneePlaceholder == "http://example.com/ids/party/data-consumer"

LowerHex == {"0", "1", "2", "3", "4", "5", "6", "7", "8", "9", "a", "b", "c", "d", "e", "f"}

\* The number of the Math.random() call that decides character i of the uuid.
DrawIndex(i) == Cardinality({j \in 1..i : UUIDTemplate[j] \in {"x", "y"}})

\* C8: generateUUID returns 36 characters in the 8-4-4-4-12 layout, all but
\* the hyphens lowercase hex digits, the 13th hex digit 4 and the 17th one
\* of 8, 9, a, b; the variant digit takes each of its four values and every
\* other drawn digit each of the 16 hex values, as its random value decides.
C8_UUIDShape ==
    /\ {UUIDReplacer("y", k) : k \in 0..(RandDenom - 1)} = {"8", "9", "a", "b"}
    /\ {UUIDReplacer("x", k) : k \in 0..(RandDenom - 1)} = LowerHex
    /\ pc = "generated" =>
         /\ Len(uuid) = 36
         /\ \A i \in 1..36 :
              IF i \in {9, 14, 19, 24} THEN uuid[i] = "-" ELSE uuid[i] \in LowerHex
         /\ uuid[15] = "4"
         /\ uuid[20] \in {"8", "9", "a", "b"}
         /\ \A i \in (1..36) \ {9, 14, 15, 19, 24} :
              LET r == (draws[DrawIndex(i)] * 16) \div RandDenom
              IN  uuid[i] = IF i = 20 THEN <<"8", "9", "a", "b">>[(r % 4) + 1]
                            ELSE HexDigits[r + 1]

C8_Witness ==
    /\ pc = "generated"
    /\ uuid[20] = "b"
    /\ uuid[1] = "f"
    /\ uuid[36] = "7"

\* C1: under restrict_consumer with a non-empty consumers list both documents
\* name consumers[0] as consumer / assignee; under restrict_connector with a
\* non-empty connectors list both carry exactly one equality constraint on
\* connectors[0]; no later element of the list (other than a repeat of the
\* first) appears anywhere in either document.
C1_FirstElementOnly ==
    Compiled =>
      /\ (policyConfig.type = "restrict_consumer" /\ HasConsumers(policyConfig)) =>
           LET cs == policyConfig.consumers
           IN  /\ TextsOfDocs
               /\ Get(IDSDoc, "ids:consumer") = JStr(cs[1])
               /\ Get(ODRLPermission, "assignee") = JStr(cs[1])
               /\ HasLine(idsPolicy, "  \"ids:consumer\": " \o Quote(cs[1]) \o ",")
               /\ HasLine(odrlPolicy, "      \"assignee\": " \o Quote(cs[1]) \o ",")
               /\ DocStrings \cap Range(ConsumerIds) = {cs[1]}
      /\ (policyConfig.type = "restrict_connector" /\ HasConnectors(policyConfig)) =>
           LET ks == policyConfig.connectors
               ic == Get(IDSPermission, "ids:constraint").a
               oc == Get(ODRLPermission, "constraint").a
           IN  /\ TextsOfDocs
               /\ Len(ic) = 1
               /\ Get(ic[1], "ids:leftOperand") = JObj(<< <<"@id", JStr("idsc:CONNECTOR")>> >>)
               /\ Get(ic[1], "ids:operator") = JObj(<< <<"@id", JStr("idsc:EQUALS")>> >>)
               /\ Get(ic[1], "ids:rightOperand") =
                     JArr(<< JObj(<< <<"@value", JStr(ks[1])>>,
                                     <<"@type", JStr("xsd:string")>> >>) >>)
               /\ oc = << JObj(<< <<"leftOperand", JStr("connector")>>,
                                  <<"operator", JStr("eq")>>,
                                  <<"rightOperand", JStr(ks[1])>> >>) >>
               /\ HasLine(idsPolicy, "              \"@value\": " \o Quote(ks[1]) \o ",")
               /\ HasLine(odrlPolicy, "          \"rightOperand\": " \o Quote(ks[1]))
               /\ DocStrings \cap Range(ConnectorIds) = {ks[1]}

C1_Witness ==
    /\ Compiled
    /\ policyConfig.type = "restrict_connector"
    /\ Defined(policyConfig, "connectors")
    /\ policyConfig.connectors = <<ConnectorIds[3], ConnectorIds[1]>>
    /\ HasLine(odrlPolicy, "          \"rightOperand\": " \o Quote(ConnectorIds[3]))

\* The own parameter of the active type is empty or absent.
EmptyOwnParameter(config) ==
    CASE config.type = "restrict_consumer" ->
            ~Defined(config, "consumers") \/ Len(config.consumers) = 0
      [] config.type = "restrict_connector" ->
            ~Defined(config, "connectors") \/ Len(config.connectors) = 0
      [] config.type = "time_limit" ->
            \/ ~Defined(config, "startTime") \/ ~Defined(config, "endTime")
            \/ config.startTime = "" \/ config.endTime = ""
      [] config.type = "usage_count" -> ~Defined(config, "maxUsageCount")

\* C2: when the own parameter of the active type is empty or absent, both
\* compilers return the unconstrained base document: the permission has no
\* constraint and ids:consumer / assignee are the placeholder URIs.
C2_EmptyParameterBaseDocument ==
    (Compiled /\ EmptyOwnParameter(policyConfig)) =>
      /\ TextsOfDocs
      /\ Len(Get(IDSDoc, "ids:permission").a) = 1
      /\ Len(Get(ODRLDoc, "permission").a) = 1
      /\ Keys(IDSPermission) = <<"ids:target", "ids:action">>
      /\ Keys(ODRLPermission) = <<"target", "assigner", "assignee", "action">>
      /\ Get(IDSDoc, "ids:consumer") = JStr(IDSConsumerPlaceholder)
      /\ Get(ODRLPermission, "assignee") = JStr(ODRLAssigneePlaceholder)
      /\ idsPolicy = JSONStringify(IDSBasePolicy(selectedDataset))
      /\ EqualApartFromIssued(odrlPolicy, JSONStringify(ODRLBasePolicy(selectedDataset, 0)))

C2_Witness ==
    /\ Compiled
    /\ policyConfig.type = "time_limit"
    /\ Defined(policyConfig, "startTime") /\ Defined(policyConfig, "endTime")
    /\ policyConfig.startTime = ""
    /\ policyConfig.endTime = LaterTime
    /\ Len(idsPolicy) = 23

\* A config with the fields of the other types removed.
OwnOnly(config) ==
    Restrict(config, {"type"} \cup (OwnFields(config.type) \cap DOMAIN config))

\* C3: the compilers branch on config.type alone: the documents of a config
\* are those of the config that has the same type and own parameters and no
\* field of another type (the ODRL document apart from dc:issued), so any two
\* configs that agree on the type and its own parameters compile alike; under
\* time_limit a non-empty consumers list leaves ids:consumer and assignee at
\* their placeholders and adds no connector or count constraint.
C3_BranchOnTypeOnly ==
    Compiled =>
      /\ idsPolicy = generateIDSPolicy(selectedDataset, OwnOnly(policyConfig))
      /\ EqualApartFromIssued(odrlPolicy,
            generateODRLPolicy(selectedDataset, OwnOnly(policyConfig), 0))
      /\ (policyConfig.type = "time_limit" /\ HasConsumers(policyConfig)) =>
            /\ TextsOfDocs
            /\ Get(IDSDoc, "ids:consumer") = JStr(IDSConsumerPlaceholder)
            /\ Get(ODRLPermission, "assignee") = JStr(ODRLAssigneePlaceholder)
            /\ DocStrings \cap {"idsc:CONNECTOR", "connector", "idsc:COUNT", "count"} = {}
            /\ DocStrings \cap (Range(ConsumerIds) \cup Range(ConnectorIds)) = {}

C3_Witness ==
    /\ Compiled
    /\ policyConfig.type = "time_limit"
    /\ HasConsumers(policyConfig)
    /\ HasConnectors(policyConfig)
    /\ HasTimeWindow(policyConfig)
    /\ policyConfig.maxUsageCount = 7
    /\ HasLine(idsPolicy, "  \"ids:consumer\": " \o Quote(IDSConsumerPlaceholder) \o ",")

\* C4: under time_limit with non-empty startTime and endTime, whatever their
\* order, the IDS permission carries exactly two constraints on
\* idsc:POLICY_EVALUATION_TIME, AFTER startTime then BEFORE endTime, with
\* datatype xsd:dateTimeStamp, and the ODRL permission exactly two on dateTime,
\* gteq startTime then lteq endTime, with datatype xsd:dateTime.
C4_TimeWindowConstraints ==
    (Compiled /\ policyConfig.type = "time_limit" /\ HasTimeWindow(policyConfig)) =>
      LET ic == Get(IDSPermission, "ids:constraint").a
          oc == Get(ODRLPermission, "constraint").a
          left == JObj(<< <<"@id", JStr("idsc:POLICY_EVALUATION_TIME")>> >>)
          stamp(v) == JArr(<< JObj(<< <<"@value", JStr(v)>>,
                                      <<"@type", JStr("xsd:dateTimeStamp")>> >>) >>)
          time(v) == JObj(<< <<"@value", JStr(v)>>, <<"@type", JStr("xsd:dateTime")>> >>)
      IN  /\ TextsOfDocs
          /\ Len(ic) = 2
          /\ Get(ic[1], "ids:leftOperand") = left
          /\ Get(ic[1], "ids:operator") = JObj(<< <<"@id", JStr("idsc:AFTER")>> >>)
          /\ Get(ic[1], "ids:rightOperand") = stamp(policyConfig.startTime)
          /\ Get(ic[2], "ids:leftOperand") = left
          /\ Get(ic[2], "ids:operator") = JObj(<< <<"@id", JStr("idsc:BEFORE")>> >>)
          /\ Get(ic[2], "ids:rightOperand") = stamp(policyConfig.endTime)
          /\ oc = << JObj(<< <<"leftOperand", JStr("dateTime")>>,
                             <<"operator", JStr("gteq")>>,
                             <<"rightOperand", time(policyConfig.startTime)>> >>),
                     JObj(<< <<"leftOperand", JStr("dateTime")>>,
                             <<"operator", JStr("lteq")>>,
                             <<"rightOperand", time(policyConfig.endTime)>> >>) >>
          /\ Len(idsPolicy) = 55
          /\ idsPolicy[28] = "            \"@id\": \"idsc:AFTER\""
          /\ idsPolicy[32] = "              \"@value\": " \o Quote(policyConfig.startTime) \o ","
          /\ idsPolicy[43] = "            \"@id\": \"idsc:BEFORE\""
          /\ idsPolicy[47] = "              \"@value\": " \o Quote(policyConfig.endTime) \o ","
          /\ Len(odrlPolicy) = 42
          /\ odrlPolicy[25] = "          \"operator\": \"gteq\","
          /\ odrlPolicy[27] = "            \"@value\": " \o Quote(policyConfig.startTime) \o ","
          /\ odrlPolicy[33] = "          \"operator\": \"lteq\","
          /\ odrlPolicy[35] = "            \"@value\": " \o Quote(policyConfig.endTime) \o ","

\* startTime is later than endTime.
C4_Witness ==
    /\ Compiled
    /\ policyConfig.type = "time_limit"
    /\ HasTimeWindow(policyConfig)
    /\ policyConfig.startTime = LaterTime
    /\ policyConfig.endTime = EarlierTime
    /\ idsPolicy[32] = "              \"@value\": " \o Quote(LaterTime) \o ","

\* The count constraints of both documents encode n.
CountEncoded(n) ==
    LET ic == Get(IDSPermission, "ids:constraint").a
        oc == Get(ODRLPermission, "constraint").a
    IN  /\ TextsOfDocs
        /\ HasKey(IDSPermission, "ids:constraint")
        /\ HasKey(ODRLPermission, "constraint")
        /\ Len(ic) = 1
        /\ Get(ic[1], "ids:leftOperand") = JObj(<< <<"@id", JStr("idsc:COUNT")>> >>)
        /\ Get(ic[1], "ids:operator") = JObj(<< <<"@id", JStr("idsc:LTEQ")>> >>)
        /\ Get(ic[1], "ids:rightOperand") =
              JArr(<< JObj(<< <<"@value", JStr(NumberToString(n))>>,
                              <<"@type", JStr("xsd:double")>> >>) >>)
        /\ oc = << JObj(<< <<"leftOperand", JStr("count")>>,
                           <<"operator", JStr("lteq")>>,
                           <<"rightOperand", JNum(n)>> >>) >>
        /\ HasLine(idsPolicy, "              \"@value\": " \o Quote(NumberToString(n)) \o ",")
        /\ HasLine(odrlPolicy, "          \"rightOperand\": " \o NumberToString(n))

\* C5: under usage_count with a positive maxUsageCount n, the IDS permission
\* carries exactly one constraint idsc:COUNT idsc:LTEQ whose right operand is
\* the decimal string of n with datatype xsd:double, and the ODRL permission
\* exactly one constraint count lteq whose right operand is the number n.
C5_PositiveUsageCount ==
    (/\ Compiled
     /\ policyConfig.type = "usage_count"
     /\ Defined(policyConfig, "maxUsageCount")
     /\ policyConfig.maxUsageCount > 0) =>
        /\ CountEncoded(policyConfig.maxUsageCount)
        /\ policyConfig.maxUsageCount = 5 =>
              /\ HasLine(idsPolicy, "              \"@value\": \"5\",")
              /\ HasLine(odrlPolicy, "          \"rightOperand\": 5")
        /\ policyConfig.maxUsageCount = 12 =>
              /\ HasLine(idsPolicy, "              \"@value\": \"12\",")
              /\ HasLine(odrlPolicy, "          \"rightOperand\": 12")

C5_Witness ==
    /\ Compiled
    /\ policyConfig.type = "usage_count"
    /\ Defined(policyConfig, "maxUsageCount")
    /\ policyConfig.maxUsageCount = 12
    /\ HasLine(odrlPolicy, "          \"rightOperand\": 12")

\* C6: under usage_count every integer maxUsageCount, zero and negative values
\* included, is encoded as the count constraint of both documents.
C6_AnyIntegerEncoded ==
    (/\ Compiled
     /\ policyConfig.type = "usage_count"
     /\ Defined(policyConfig, "maxUsageCount")) =>
        CountEncoded(policyConfig.maxUsageCount)

\* C7: compiling the same (Dataset, PolicyConfig) pair again yields the same
\* IDS text and an ODRL text that differs at most in dc:issued; the IDS @id
\* and ids:target @id and the ODRL uid and permission target are each a fixed
\* prefix followed by dataset.uuid verbatim.
C7_UuidVerbatim ==
    Compiled =>
      LET u == Join(selectedDataset.uuid)
      IN  /\ TextsOfDocs
          /\ Len(selectedDataset.uuid) = 36
          /\ Get(IDSDoc, "@id") = JStr("https://w3id.org/idsa/autogen/contract/" \o u)
          /\ Get(IDSPermission, "ids:target") =
                JObj(<< <<"@id", JStr("http://example.com/ids/target/" \o u)>> >>)
          /\ Get(ODRLDoc, "uid") = JStr("http://example.com/policy/" \o u)
          /\ Get(ODRLPermission, "target") = JStr("http://example.com/ids/data/" \o u)
          /\ idsPolicy[7] = "  \"@id\": \"https://w3id.org/idsa/autogen/contract/" \o u \o "\","
          /\ idsPolicy[14] = "        \"@id\": \"http://example.com/ids/target/" \o u \o "\""
          /\ odrlPolicy[11] = "  \"uid\": \"http://example.com/policy/" \o u \o "\","
          /\ odrlPolicy[18] = "      \"target\": \"http://example.com/ids/data/" \o u \o "\","

C7_SameOnRecompile ==
    (Compiled /\ pc' = "done" /\ selectedDataset' = selectedDataset
              /\ policyConfig' = policyConfig) =>
        /\ idsPolicy' = idsPolicy
        /\ EqualApartFromIssued(odrlPolicy, odrlPolicy')

C7_RecompileStable == [](C7_UuidVerbatim) /\ [][C7_SameOnRecompile]_vars

\* The pair has been compiled a second time, at a later instant.
C7_Witness ==
    /\ Compiled
    /\ now > 0
    /\ odrlPolicy = generateODRLPolicy(selectedDataset, policyConfig, now)
    /\ selectedDataset.uuid[1] = "f"

\* C9: policyConfig.maxUsageCount is a positive integer in every state of the
\* component, whatever raw texts handleUsageCountChange was given.
C9_UsageCountPositive ==
    pc = "mounted" => policyConfig.maxUsageCount > 0

\* The documents shown are those of the selected dataset and the current
\* config.
DisplayedDocsCurrent ==
    selectedDataset # Null =>
       /\ idsPolicy = generateIDSPolicy(selectedDataset, policyConfig)
       /\ EqualApartFromIssued(odrlPolicy,
             generateODRLPolicy(selectedDataset, policyConfig, 0))

\* A step that switches the variant leaves every parameter field and the
\* selected dataset as they were.
C10_SwitchKeepsParameters ==
    (pc = "mounted" /\ policyConfig'.type # policyConfig.type) =>
        /\ policyConfig' = [policyConfig EXCEPT !.type = policyType']
        /\ \A f \in ParamFields : policyConfig'[f] = policyConfig[f]
        /\ policyType' = policyConfig'.type
        /\ selectedDataset' = selectedDataset

\* C10: handlePolicyTypeChange changes only the type tag, policyType and
\* policyConfig.type staying equal; the documents shown are always those of
\* the selected dataset and the current config, so returning to a variant
\* with no parameter changed in between shows the documents shown before,
\* apart from dc:issued.
C10_TypeSwitchFrame ==
    /\ [](pc = "mounted" => policyType = policyConfig.type /\ DisplayedDocsCurrent)
    /\ [][C10_SwitchKeepsParameters]_vars

\* The variant was switched to usage_count, the count set, and the variant
\* switched on to time_limit with the earlier parameters in place.
C10_Witness ==
    /\ pc = "mounted"
    /\ selectedDataset # Null
    /\ policyConfig.type = "time_limit"
    /\ HasConsumers(policyConfig)
    /\ HasConnectors(policyConfig)
    /\ policyConfig.maxUsageCount = 5
    /\ HasTimeWindow(policyConfig)

\* Each dataset of the catalog keeps the uuid of the first render, and the
\* documents shown embed the uuid of the selected dataset of the catalog.
C11_UuidKept ==
    pc = "mounted" =>
      /\ \E kss \in CatalogDraws : datasets = convertToDatasets(kss)
      /\ selectedDataset # Null =>
           /\ selectedDataset \in Range(datasets)
           /\ idsPolicy[7] = "  \"@id\": \"https://w3id.org/idsa/autogen/contract/"
                                \o Join(selectedDataset.uuid) \o "\","
           /\ odrlPolicy[11] = "  \"uid\": \"http://example.com/policy/"
                                \o Join(selectedDataset.uuid) \o "\","

\* C11: over any sequence of renders and handler events of the mounted
\* component, generateUUID is invoked at most once per catalog dataset, each
\* dataset's uuid never changes, and the documents shown embed it.
C11_GeneratedOncePerDataset ==
    /\ [](pc = "mounted" => \A i \in DOMAIN uuidCalls : uuidCalls[i] <= 1)
    /\ [](C11_UuidKept)
    /\ [][pc = "mounted" => datasets' = datasets]_vars

\* The part of C11 that does not count the calls: the uuids are never
\* replaced and the documents shown embed them.
C11_UuidStable == [](C11_UuidKept) /\ [][pc = "mounted" => datasets' = datasets]_vars

====
